---- MODULE Spec2Model ----
(***************************************************************************)
(* Log aggregator (src/src/main.rs): an in-memory log store behind a       *)
(* std::sync::Mutex, a tokio broadcast channel feeding the SSE streams,    *)
(* the actix handlers post_log, get_logs, get_stats and logs_stream, and   *)
(* the background task persist_logs.                                       *)
(*                                                                         *)
(* Handlers run on several worker threads, so every handler is a process   *)
(* with a program counter; one action is one step of a handler between two *)
(* points where another thread can observe or change shared state.         *)
(***************************************************************************)
EXTENDS Integers, Sequences, FiniteSets, TLC

\* ------------------------------------------------------------------ bounds
\* The retention limit of post_log (50_000 in main.rs:74), scaled down.
CAP == 2
\* The capacity handed to broadcast::channel (100 in main.rs:191), scaled down.
ChannelCapacity == 2
\* POST /logs requests made over a run, by all producers together.
MaxIngest == 3
\* A capacity that, like the 100 of main.rs:191, is not a power of two, and
\* the number of POST /logs requests of the runs that use it.
UnroundedCapacity == 3
LongIngest == 5

\* Two clients of POST /logs working concurrently, each making its requests
\* one after the other; two connections to GET /logs/stream. GET /logs and
\* GET /logs/stats have one client each, which repeats its request for ever.
Producers == {1, 2}
Subscribers == {1, 2}

\* ------------------------------------------------------- request contents
Services == {"auth", "payments"}
Levels == {"INFO", "ERROR"}
\* Timestamps are strings, modelled as sequences of characters: the empty
\* string, a blank string and a producer-supplied time.
BlankTimestamps == {<< >>, <<" ">>}
GivenTimestamp == <<"2", "0">>
\* What Utc::now().to_rfc3339() returns: never blank.
ServerTime == <<"N", "O", "W">>
\* Values a query parameter can carry besides the stored ones.
OtherValue == "other"
None == "None"

VARIABLES
    db,          \* LogDb: the Vec<LogEntry> behind the mutex (main.rs:23,190)
    lock,        \* the mutex: who holds it
    tail,        \* broadcast channel: next write position and receiver count
    buffer,      \* broadcast channel: the ring of slots
    total_logs,  \* the Prometheus IntCounter (main.rs:195)
    pc,          \* post_log: where each producer's current call stands
    entry,       \* post_log: the local `entry` of each producer's call
    calls,       \* post_log calls each producer has started
    sub,         \* logs_stream: each connection's state and its receiver's `next`
    frames,      \* the SSE frames emitted on each connection, in order
    rpc,         \* get_logs: where the query client's call stands
    response,    \* get_logs: the last response, with the request and the Store it saw
    spc,         \* get_stats: where the stats client's call stands
    stats,       \* get_stats: the last response, with the Store it saw
    appended,    \* history: every entry pushed to the Store, in push order
    sent,        \* history: every payload handed to send, in order, accepted or not
    subAt,       \* history: how many payloads had been sent when a connection subscribed
    persist,     \* persist_logs: where the task stands, and its local `logs`
    file         \* the snapshot file at cfg.file_path

vars == <<db, lock, tail, buffer, total_logs, pc, entry, calls, sub, frames,
          rpc, response, spc, stats, appended, sent, subAt, persist, file>>

storeVars == <<db, lock, appended>>
chanVars == <<tail, buffer, sent>>
producerVars == <<pc, entry, calls, total_logs>>
streamVars == <<sub, frames, subAt>>
readerVars == <<rpc, response>>
statsVars == <<spc, stats>>
persistVars == <<persist, file>>

\* ------------------------------------------------------------ LogEntry
\* A request body. The message carries the producer and the call number, so
\* that two requests never have the same content and an entry can be traced.
MessageOf(p, i) == <<"msg", p, i>>

\* Producer 1 logs for one service and leaves the timestamp to the server;
\* producer 2 logs for the other and sets the timestamp, as log_generator.rs:20
\* does. The levels of a producer's requests alternate, producer 1 starting
\* with INFO and producer 2 with ERROR, so that the Store comes to hold every
\* combination of service and level, in the orders the interleavings give.
ServiceOf(p) == IF p = 1 THEN "auth" ELSE "payments"

TimestampsOf(p) == IF p = 1 THEN BlankTimestamps ELSE {GivenTimestamp}

LevelOf(p, i) == IF (p + i) % 2 = 0 THEN "INFO" ELSE "ERROR"

Bodies(p, i) ==
    { [timestamp |-> t, service |-> ServiceOf(p), level |-> LevelOf(p, i),
       message |-> MessageOf(p, i)] : t \in TimestampsOf(p) }

IsWhitespace(c) == c = " "

\* str::trim: drop leading and trailing whitespace.
RECURSIVE TrimStart(_)
TrimStart(s) ==
    IF s = << >> THEN << >>
    ELSE IF IsWhitespace(Head(s)) THEN TrimStart(Tail(s))
    ELSE s

RECURSIVE TrimEnd(_)
TrimEnd(s) ==
    IF s = << >> THEN << >>
    ELSE IF IsWhitespace(s[Len(s)]) THEN TrimEnd(SubSeq(s, 1, Len(s) - 1))
    ELSE s

Trim(s) == TrimEnd(TrimStart(s))

\* Mutant of FixTimestamp: only the empty string counts as blank.
FixTimestampEmptyOnly(e, now) ==
    IF e.timestamp = << >> THEN [e EXCEPT !.timestamp = now] ELSE e

\* main.rs:64-66
FixTimestamp(e, now) ==
    IF Trim(e.timestamp) = << >> THEN [e EXCEPT !.timestamp = now] ELSE e

\* serde_json::to_string(&entry): the fields in declaration order.
ToJson(e) ==
    <<"{", "timestamp", e.timestamp, "service", e.service,
      "level", e.level, "message", e.message, "}">>

\* main.rs:139
SseFrame(msg) == <<"data: ", msg, "\n\n">>

\* ------------------------------------------------------------ the mutex
Free == <<"free", 0>>
PostLogHolder(p) == <<"post_log", p>>
GetLogsHolder == <<"get_logs", 0>>
GetStatsHolder == <<"get_stats", 0>>
PersistHolder == <<"persist_logs", 0>>

\* ------------------------------------------------------------ Vec helpers
\* Mutant of DrainFront: the newest entries are removed instead of the oldest.
DrainBack(v, n) == SubSeq(v, 1, Len(v) - n)

\* Vec::drain(0..n): remove the first n elements.
DrainFront(v, n) == SubSeq(v, n + 1, Len(v))

\* Mutant of EvictCount: the range is one short.
EvictCountShort(len) == IF len > CAP THEN len - CAP - 1 ELSE 0

\* main.rs:73-76: how many entries the call removes from a Store of length len.
EvictCount(len) == IF len > CAP THEN len - CAP ELSE 0

\* Mutant of PushEntry: the entry is inserted at the front.
PushEntryFront(v, e) == <<e>> \o v

\* Mutant of PushEntry: the entry is written over the last one.
PushEntryOver(v, e) == IF v = << >> THEN <<e>> ELSE [v EXCEPT ![Len(v)] = e]

\* main.rs:70
PushEntry(v, e) == Append(v, e)

\* Vec::retain with the closure |log| log.service == *service
RECURSIVE RetainService(_, _)
RetainService(v, service) ==
    IF v = << >> THEN << >>
    ELSE IF Head(v).service = service
         THEN <<Head(v)>> \o RetainService(Tail(v), service)
         ELSE RetainService(Tail(v), service)

\* Vec::retain with the closure |log| log.level == *level
RECURSIVE RetainLevel(_, _)
RetainLevel(v, level) ==
    IF v = << >> THEN << >>
    ELSE IF Head(v).level = level
         THEN <<Head(v)>> \o RetainLevel(Tail(v), level)
         ELSE RetainLevel(Tail(v), level)

\* ------------------------------------------------------------ HashMap helpers
EmptyMap == [k \in {} |-> 0]

\* Mutant of Bump: a new key starts at 1 and is then incremented.
BumpFromOne(m, k) == IF k \in DOMAIN m THEN [m EXCEPT ![k] = @ + 1] ELSE m @@ (k :> 2)

\* *map.entry(key).or_insert(0) += 1
Bump(m, k) == IF k \in DOMAIN m THEN [m EXCEPT ![k] = @ + 1] ELSE m @@ (k :> 1)

\* main.rs:114-117: one pass over the Store filling both tables.
RECURSIVE StatsLoop(_, _)
StatsLoop(v, acc) ==
    IF v = << >> THEN acc
    ELSE StatsLoop(Tail(v),
                   [by_level |-> Bump(acc.by_level, Head(v).level),
                    by_service |-> Bump(acc.by_service, Head(v).service)])

\* ------------------------------------------------ tokio::sync::broadcast
\* broadcast::channel rounds the requested capacity up to a power of two.
RECURSIVE NextPowerOfTwoFrom(_, _)
NextPowerOfTwoFrom(n, k) == IF k >= n THEN k ELSE NextPowerOfTwoFrom(n, 2 * k)

\* Mutant of NextPowerOfTwo: the capacity is taken as it is.
NoRounding(n) == n

NextPowerOfTwo(n) == NextPowerOfTwoFrom(n, 1)

\* main.rs:191: the ring broadcast::channel(capacity) allocates. Slot i starts
\* as if it held the position one lap before its first.
NewBuffer(capacity) ==
    LET len == NextPowerOfTwo(capacity)
    IN  [i \in 0..(len - 1) |-> [pos |-> i - len, val |-> << >>]]

\* The number of slots of the ring (shared.buffer.len()).
BufferLen == Cardinality(DOMAIN buffer)

SlotIndex(pos) == pos % BufferLen

\* Sender::send: refuse when no receiver exists, else write the slot at the
\* tail position and advance the tail. It never waits for a receiver.
SendAccepted(t) == t.rx_cnt > 0

\* Mutant of SendBuffer: a slot some open receiver has not read is not
\* overwritten; the new value is dropped instead.
SendBufferKeepsUnread(t, b, value) ==
    IF SendAccepted(t) /\ \A s \in Subscribers :
                            sub[s].status = "open" => t.pos - sub[s].next < BufferLen
    THEN [b EXCEPT ![SlotIndex(t.pos)] = [pos |-> t.pos, val |-> value]]
    ELSE b

SendBuffer(t, b, value) ==
    IF SendAccepted(t)
    THEN [b EXCEPT ![SlotIndex(t.pos)] = [pos |-> t.pos, val |-> value]]
    ELSE b

SendTail(t) == IF SendAccepted(t) THEN [t EXCEPT !.pos = @ + 1] ELSE t

\* Mutant of SubscribeNext: the new receiver starts at the oldest value in the ring.
SubscribeOldest(t) == IF t.pos > BufferLen THEN t.pos - BufferLen ELSE 0

\* Sender::subscribe: the new receiver starts at the tail position.
SubscribeNext(t) == t.pos

\* Mutant of RecvOutcome: a value is handed out only once the next one is written.
RecvOutcomeLate(next, b) ==
    LET slot == b[SlotIndex(next)]
        after == b[SlotIndex(next + 1)]
    IN  IF slot.pos = next /\ (BufferLen = 1 \/ after.pos = next + 1) THEN "Ok"
        ELSE IF slot.pos = next \/ slot.pos + BufferLen = next THEN "Empty"
        ELSE "Lagged"

\* Receiver::recv, by the slot the receiver's `next` maps to:
\*   the slot holds position `next`            -> Ok(value)
\*   the slot holds position `next - len`      -> nothing yet: the future waits
\*   the slot was overwritten (a later position) -> Err(Lagged)
RecvOutcome(next, b) ==
    LET slot == b[SlotIndex(next)] IN
    IF slot.pos = next THEN "Ok"
    ELSE IF slot.pos + BufferLen = next THEN "Empty"
    ELSE "Lagged"

\* Where Err(Lagged) leaves the receiver: at the oldest value still in the ring.
LaggedNext(t) == t.pos - BufferLen

\* ------------------------------------------------------------ initial state
\* main.rs:190-196. broadcast::channel(100).0 keeps the Sender and drops the
\* Receiver created with it, so the channel starts with no receiver.
NoResponse == [service |-> None, level |-> None, snapshot |-> << >>, body |-> << >>]
NoStats == [snapshot |-> << >>, by_level |-> EmptyMap, by_service |-> EmptyMap]
NoFile == <<"absent">>
NoEntry == [timestamp |-> << >>, service |-> "", level |-> "", message |-> << >>]

InitWith(capacity) ==
    /\ db = << >>
    /\ lock = Free
    /\ tail = [pos |-> 0, rx_cnt |-> 0]
    /\ buffer = NewBuffer(capacity)
    /\ total_logs = 0
    /\ pc = [p \in Producers |-> "idle"]
    /\ entry = [p \in Producers |-> NoEntry]
    /\ calls = [p \in Producers |-> 0]
    /\ sub = [s \in Subscribers |-> [status |-> "none", next |-> 0]]
    /\ frames = [s \in Subscribers |-> << >>]
    /\ rpc = "idle"
    /\ response = NoResponse
    /\ spc = "idle"
    /\ stats = NoStats
    /\ appended = << >>
    /\ sent = << >>
    /\ subAt = [s \in Subscribers |-> 0]
    /\ persist = [pc |-> "sleep", logs |-> << >>]
    /\ file = NoFile

Init == InitWith(ChannelCapacity)

\* The server started with a channel capacity that is not a power of two.
InitUnrounded == InitWith(UnroundedCapacity)

\* ------------------------------------------------------------ post_log
RECURSIVE SumOver(_, _)
SumOver(f, S) ==
    IF S = {} THEN 0
    ELSE LET k == CHOOSE x \in S : TRUE IN f[k] + SumOver(f, S \ {k})

\* POST /logs requests started so far.
Started == SumOver(calls, Producers)

\* Mutant of PostLogBegin: the call goes straight to the send and never takes
\* the mutex, so what it publishes is not in the Store.
PostLogBeginPublishOnly(p) ==
    /\ pc[p] = "idle"
    /\ Started < MaxIngest
    /\ \E body \in Bodies(p, calls[p] + 1) :
         entry' = [entry EXCEPT ![p] = FixTimestamp(body, ServerTime)]
    /\ calls' = [calls EXCEPT ![p] = @ + 1]
    /\ pc' = [pc EXCEPT ![p] = "send"]
    /\ UNCHANGED <<storeVars, chanVars, total_logs, streamVars, readerVars, statsVars,
                   persistVars>>

\* main.rs:62-66: take the body, give it the server time when its timestamp
\* is blank. The call then waits for the mutex.
PostLogBegin(p) ==
    /\ pc[p] = "idle"
    /\ Started < MaxIngest
    /\ \E body \in Bodies(p, calls[p] + 1) :
         entry' = [entry EXCEPT ![p] = FixTimestamp(body, ServerTime)]
    /\ calls' = [calls EXCEPT ![p] = @ + 1]
    /\ pc' = [pc EXCEPT ![p] = "lock"]
    /\ UNCHANGED <<storeVars, chanVars, total_logs, streamVars, readerVars, statsVars,
                   persistVars>>

\* PostLogBegin for a client that makes up to LongIngest requests.
PostLogBeginLong(p) ==
    /\ pc[p] = "idle"
    /\ Started < LongIngest
    /\ \E body \in Bodies(p, calls[p] + 1) :
         entry' = [entry EXCEPT ![p] = FixTimestamp(body, ServerTime)]
    /\ calls' = [calls EXCEPT ![p] = @ + 1]
    /\ pc' = [pc EXCEPT ![p] = "lock"]
    /\ UNCHANGED <<storeVars, chanVars, total_logs, streamVars, readerVars, statsVars,
                   persistVars>>

\* main.rs:69-70: db.lock().unwrap(); db_lock.push(entry.clone())
PostLogPush(p) ==
    /\ pc[p] = "lock"
    /\ lock = Free
    /\ lock' = PostLogHolder(p)
    /\ db' = PushEntry(db, entry[p])
    /\ appended' = Append(appended, entry[p])
    /\ pc' = [pc EXCEPT ![p] = "drain"]
    /\ UNCHANGED <<chanVars, entry, calls, total_logs, streamVars, readerVars, statsVars,
                   persistVars>>

\* main.rs:73-77: drain the oldest entries beyond the limit; the guard is
\* dropped at the end of the block.
PostLogDrain(p) ==
    /\ pc[p] = "drain"
    /\ lock = PostLogHolder(p)
    /\ db' = DrainFront(db, EvictCount(Len(db)))
    /\ lock' = Free
    /\ pc' = [pc EXCEPT ![p] = "send"]
    /\ UNCHANGED <<appended, chanVars, entry, calls, total_logs, streamVars, readerVars,
                   statsVars, persistVars>>

\* Mutant of PostLogSend: send waits while an open receiver's ring is full.
PostLogSendWaits(p) ==
    /\ pc[p] = "send"
    /\ \A s \in Subscribers : sub[s].status = "open" => tail.pos - sub[s].next < BufferLen
    /\ LET payload == ToJson(entry[p]) IN
         /\ buffer' = SendBuffer(tail, buffer, payload)
         /\ tail' = SendTail(tail)
         /\ sent' = Append(sent, [payload |-> payload, accepted |-> SendAccepted(tail)])
    /\ pc' = [pc EXCEPT ![p] = "inc"]
    /\ UNCHANGED <<storeVars, entry, calls, total_logs, streamVars, readerVars, statsVars,
                   persistVars>>

\* Mutant of PostLogSend: the result of send is unwrapped, so a call that finds
\* no receiver ends there, uncounted.
PostLogSendUnwrap(p) ==
    /\ pc[p] = "send"
    /\ LET payload == ToJson(entry[p]) IN
         /\ buffer' = SendBuffer(tail, buffer, payload)
         /\ tail' = SendTail(tail)
         /\ sent' = Append(sent, [payload |-> payload, accepted |-> SendAccepted(tail)])
    /\ pc' = [pc EXCEPT ![p] = IF SendAccepted(tail) THEN "inc" ELSE "idle"]
    /\ UNCHANGED <<storeVars, entry, calls, total_logs, streamVars, readerVars, statsVars,
                   persistVars>>

\* main.rs:80-82: serialize and send; the result of send is ignored.
PostLogSend(p) ==
    /\ pc[p] = "send"
    /\ LET payload == ToJson(entry[p]) IN
         /\ buffer' = SendBuffer(tail, buffer, payload)
         /\ tail' = SendTail(tail)
         /\ sent' = Append(sent, [payload |-> payload, accepted |-> SendAccepted(tail)])
    /\ pc' = [pc EXCEPT ![p] = "inc"]
    /\ UNCHANGED <<storeVars, entry, calls, total_logs, streamVars, readerVars, statsVars,
                   persistVars>>

\* Mutant of PostLogInc: the log is counted only when a receiver is connected.
PostLogIncIfDelivered(p) ==
    /\ pc[p] = "inc"
    /\ total_logs' = IF tail.rx_cnt > 0 THEN total_logs + 1 ELSE total_logs
    /\ entry' = [entry EXCEPT ![p] = NoEntry]
    /\ pc' = [pc EXCEPT ![p] = "idle"]
    /\ UNCHANGED <<storeVars, chanVars, calls, streamVars, readerVars, statsVars,
                   persistVars>>

\* main.rs:84-85: count the log and answer 200.
PostLogInc(p) ==
    /\ pc[p] = "inc"
    /\ total_logs' = total_logs + 1
    /\ entry' = [entry EXCEPT ![p] = NoEntry]
    /\ pc' = [pc EXCEPT ![p] = "idle"]
    /\ UNCHANGED <<storeVars, chanVars, calls, streamVars, readerVars, statsVars,
                   persistVars>>

\* ------------------------------------------------------------ get_logs
\* main.rs:93: the guard lives until the handler returns.
GetLogsLock ==
    /\ rpc = "idle"
    /\ lock = Free
    /\ lock' = GetLogsHolder
    /\ rpc' = "locked"
    /\ UNCHANGED <<db, appended, chanVars, producerVars, streamVars, response, statsVars,
                   persistVars>>

\* Mutant of Filtered: the level pass starts again from the clone.
FilteredLevelFromClone(v, service, level) ==
    LET cloned == v
        byService == IF service # None THEN RetainService(cloned, service) ELSE cloned
    IN  IF level # None THEN RetainLevel(cloned, level) ELSE byService

\* main.rs:94-101: clone the Store, then the two optional retain passes.
Filtered(v, service, level) ==
    LET cloned == v
        byService == IF service # None THEN RetainService(cloned, service) ELSE cloned
    IN  IF level # None THEN RetainLevel(byService, level) ELSE byService

QueryValues(stored) == {None, OtherValue} \cup stored

\* main.rs:94-104: filter, answer, drop the guard.
GetLogsRespond ==
    /\ rpc = "locked"
    /\ lock = GetLogsHolder
    /\ \E service \in QueryValues(Services), level \in QueryValues(Levels) :
         response' = [service |-> service, level |-> level, snapshot |-> db,
                      body |-> Filtered(db, service, level)]
    /\ lock' = Free
    /\ rpc' = "responded"
    /\ UNCHANGED <<db, appended, chanVars, producerVars, streamVars, statsVars,
                   persistVars>>

\* The response has gone out to the client, which may ask again.
GetLogsDone ==
    /\ rpc = "responded"
    /\ response' = NoResponse
    /\ rpc' = "idle"
    /\ UNCHANGED <<storeVars, chanVars, producerVars, streamVars, statsVars, persistVars>>

\* ------------------------------------------------------------ get_stats
\* main.rs:108
GetStatsLock ==
    /\ spc = "idle"
    /\ lock = Free
    /\ lock' = GetStatsHolder
    /\ spc' = "locked"
    /\ UNCHANGED <<db, appended, chanVars, producerVars, streamVars, readerVars, stats,
                   persistVars>>

\* main.rs:111-125: count, answer, drop the guard.
GetStatsRespond ==
    /\ spc = "locked"
    /\ lock = GetStatsHolder
    /\ LET tables == StatsLoop(db, [by_level |-> EmptyMap, by_service |-> EmptyMap]) IN
         stats' = [snapshot |-> db, by_level |-> tables.by_level,
                   by_service |-> tables.by_service]
    /\ lock' = Free
    /\ spc' = "responded"
    /\ UNCHANGED <<db, appended, chanVars, producerVars, streamVars, readerVars,
                   persistVars>>

\* The response has gone out to the client, which may ask again.
GetStatsDone ==
    /\ spc = "responded"
    /\ stats' = NoStats
    /\ spc' = "idle"
    /\ UNCHANGED <<storeVars, chanVars, producerVars, streamVars, readerVars, persistVars>>

\* ------------------------------------------------------------ logs_stream
\* main.rs:134: bcast.subscribe()
LogsStream(s) ==
    /\ sub[s].status = "none"
    /\ sub' = [sub EXCEPT ![s] = [status |-> "open", next |-> SubscribeNext(tail)]]
    /\ tail' = [tail EXCEPT !.rx_cnt = @ + 1]
    /\ subAt' = [subAt EXCEPT ![s] = Len(sent)]
    /\ UNCHANGED <<storeVars, buffer, sent, producerVars, frames, readerVars, statsVars,
                   persistVars>>

\* Mutant of StreamFrame: the receiver's position is not advanced.
StreamFrameAgain(s) ==
    /\ sub[s].status = "open"
    /\ RecvOutcome(sub[s].next, buffer) = "Ok"
    /\ Len(frames[s]) < MaxIngest
    /\ frames' = [frames EXCEPT ![s] = Append(@, SseFrame(buffer[SlotIndex(sub[s].next)].val))]
    /\ UNCHANGED <<storeVars, chanVars, producerVars, sub, subAt, readerVars, statsVars,
                   persistVars>>

\* main.rs:137-141: rx.recv() returned Ok(msg): emit the frame, keep the receiver.
StreamFrame(s) ==
    /\ sub[s].status = "open"
    /\ RecvOutcome(sub[s].next, buffer) = "Ok"
    /\ frames' = [frames EXCEPT ![s] = Append(@, SseFrame(buffer[SlotIndex(sub[s].next)].val))]
    /\ sub' = [sub EXCEPT ![s].next = @ + 1]
    /\ UNCHANGED <<storeVars, chanVars, producerVars, subAt, readerVars, statsVars,
                   persistVars>>

\* main.rs:142: rx.recv() returned Err(Lagged): the stream ends and the receiver
\* is dropped with it.
StreamLagged(s) ==
    /\ sub[s].status = "open"
    /\ RecvOutcome(sub[s].next, buffer) = "Lagged"
    /\ sub' = [sub EXCEPT ![s] = [status |-> "ended", next |-> LaggedNext(tail)]]
    /\ tail' = [tail EXCEPT !.rx_cnt = @ - 1]
    /\ UNCHANGED <<storeVars, buffer, sent, producerVars, frames, subAt, readerVars,
                   statsVars, persistVars>>

\* The client closes the connection: the response body, and the receiver in
\* it, is dropped.
StreamDisconnect(s) ==
    /\ sub[s].status = "open"
    /\ sub' = [sub EXCEPT ![s].status = "closed"]
    /\ tail' = [tail EXCEPT !.rx_cnt = @ - 1]
    /\ UNCHANGED <<storeVars, buffer, sent, producerVars, frames, subAt, readerVars,
                   statsVars, persistVars>>

\* ------------------------------------------------------------ persist_logs
\* serde_json::to_string(&logs): a JSON array of the entries.
ToJsonArray(v) == <<"[">> \o [i \in 1..Len(v) |-> ToJson(v[i])] \o <<"]">>

\* Mutant of PersistLock: the task does not wait for the mutex.
PersistLockNoWait ==
    /\ persist.pc = "sleep"
    /\ lock' = PersistHolder
    /\ persist' = [persist EXCEPT !.pc = "locked"]
    /\ UNCHANGED <<db, appended, chanVars, producerVars, streamVars, readerVars, statsVars,
                   file>>

\* main.rs:166-169: the interval has passed; db.lock().unwrap()
PersistLock ==
    /\ persist.pc = "sleep"
    /\ lock = Free
    /\ lock' = PersistHolder
    /\ persist' = [persist EXCEPT !.pc = "locked"]
    /\ UNCHANGED <<db, appended, chanVars, producerVars, streamVars, readerVars, statsVars,
                   file>>

\* main.rs:170-171: clone the Store; the guard is dropped at the end of the block.
PersistClone ==
    /\ persist.pc = "locked"
    /\ persist' = [pc |-> "write", logs |-> db]
    /\ lock' = Free
    /\ UNCHANGED <<db, appended, chanVars, producerVars, streamVars, readerVars, statsVars,
                   file>>

\* main.rs:173: nothing to write; back to sleep.
PersistSkip ==
    /\ persist.pc = "write"
    /\ persist.logs = << >>
    /\ persist' = [pc |-> "sleep", logs |-> << >>]
    /\ UNCHANGED <<storeVars, chanVars, producerVars, streamVars, readerVars, statsVars,
                   file>>

\* main.rs:174-181: serialize, open with create and truncate, write; all went well.
PersistWrite ==
    /\ persist.pc = "write"
    /\ persist.logs # << >>
    /\ file' = ToJsonArray(persist.logs)
    /\ persist' = [pc |-> "sleep", logs |-> << >>]
    /\ UNCHANGED <<storeVars, chanVars, producerVars, streamVars, readerVars, statsVars>>

\* main.rs:175-180: open returned Err; unwrap panics and the task is gone.
PersistOpenFails ==
    /\ persist.pc = "write"
    /\ persist.logs # << >>
    /\ persist' = [pc |-> "dead", logs |-> << >>]
    /\ UNCHANGED <<storeVars, chanVars, producerVars, streamVars, readerVars, statsVars,
                   file>>

\* main.rs:181: the file was opened, and so truncated, and write_all returned
\* Err after some part of the data; unwrap panics and the task is gone.
PersistWriteFails ==
    /\ persist.pc = "write"
    /\ persist.logs # << >>
    /\ \E n \in 0..Len(persist.logs) :
         file' = SubSeq(ToJsonArray(persist.logs), 1, n + 1)
    /\ persist' = [pc |-> "dead", logs |-> << >>]
    /\ UNCHANGED <<storeVars, chanVars, producerVars, streamVars, readerVars, statsVars>>

\* ------------------------------------------------------------ poisoning
\* std::sync::Mutex: a guard dropped while its thread is panicking marks the
\* mutex poisoned, and lock() of a poisoned mutex returns Err for ever after.
\* Every lock() in main.rs is followed by unwrap() (lines 69, 93, 108, 169).
Poisoned == <<"poisoned", 0>>

\* main.rs:68-77: the thread panics inside the locked block, after the push.
\* The call ends without a response.
PostLogPanics(p) ==
    /\ pc[p] = "drain"
    /\ lock = PostLogHolder(p)
    /\ lock' = Poisoned
    /\ pc' = [pc EXCEPT ![p] = "idle"]
    /\ entry' = [entry EXCEPT ![p] = NoEntry]
    /\ UNCHANGED <<db, appended, chanVars, calls, total_logs, streamVars, readerVars,
                   statsVars, persistVars>>

\* main.rs:93-103: the thread panics while the guard of get_logs is alive.
GetLogsPanics ==
    /\ rpc = "locked"
    /\ lock = GetLogsHolder
    /\ lock' = Poisoned
    /\ rpc' = "idle"
    /\ UNCHANGED <<db, appended, chanVars, producerVars, streamVars, response, statsVars,
                   persistVars>>

\* main.rs:108-124: the thread panics while the guard of get_stats is alive.
GetStatsPanics ==
    /\ spc = "locked"
    /\ lock = GetStatsHolder
    /\ lock' = Poisoned
    /\ spc' = "idle"
    /\ UNCHANGED <<db, appended, chanVars, producerVars, streamVars, readerVars, stats,
                   persistVars>>

\* main.rs:168-171: the task panics while it clones the Store, and is gone.
PersistPanics ==
    /\ persist.pc = "locked"
    /\ lock = PersistHolder
    /\ lock' = Poisoned
    /\ persist' = [pc |-> "dead", logs |-> << >>]
    /\ UNCHANGED <<db, appended, chanVars, producerVars, streamVars, readerVars, statsVars,
                   file>>

\* main.rs:69: db.lock() returns Err(PoisonError) and unwrap panics: the call
\* ends without a push, a send, a count or a response.
PostLogPoisoned(p) ==
    /\ pc[p] = "lock"
    /\ lock = Poisoned
    /\ pc' = [pc EXCEPT ![p] = "idle"]
    /\ entry' = [entry EXCEPT ![p] = NoEntry]
    /\ UNCHANGED <<storeVars, chanVars, calls, total_logs, streamVars, readerVars,
                   statsVars, persistVars>>

\* main.rs:169: db.lock() returns Err(PoisonError) and unwrap panics: the task
\* is gone. (get_logs and get_stats panic at lines 93 and 108 in the same way;
\* their requests leave nothing behind.)
PersistPoisoned ==
    /\ persist.pc = "sleep"
    /\ lock = Poisoned
    /\ persist' = [pc |-> "dead", logs |-> << >>]
    /\ UNCHANGED <<storeVars, chanVars, producerVars, streamVars, readerVars, statsVars,
                   file>>

\* ------------------------------------------------------------ the system
NextIngest ==
    \/ \E p \in Producers : PostLogBegin(p)
    \/ \E p \in Producers : PostLogPush(p)
    \/ \E p \in Producers : PostLogDrain(p)
    \/ \E p \in Producers : PostLogSend(p)
    \/ \E p \in Producers : PostLogInc(p)

NextQuery ==
    \/ GetLogsLock
    \/ GetLogsRespond
    \/ GetLogsDone
    \/ GetStatsLock
    \/ GetStatsRespond
    \/ GetStatsDone

NextStream ==
    \/ \E s \in Subscribers : LogsStream(s)
    \/ \E s \in Subscribers : StreamFrame(s)
    \/ \E s \in Subscribers : StreamLagged(s)
    \/ \E s \in Subscribers : StreamDisconnect(s)

NextPersist ==
    \/ PersistLock
    \/ PersistClone
    \/ PersistSkip
    \/ PersistWrite
    \/ PersistOpenFails
    \/ PersistWriteFails

\* The requests of one producer.
NextProducer(p) ==
    \/ PostLogBegin(p)
    \/ PostLogPush(p)
    \/ PostLogDrain(p)
    \/ PostLogSend(p)
    \/ PostLogInc(p)

\* The requests of one producer that makes up to LongIngest of them.
NextLongProducer(p) ==
    \/ PostLogBeginLong(p)
    \/ PostLogPush(p)
    \/ PostLogDrain(p)
    \/ PostLogSend(p)
    \/ PostLogInc(p)

\* A panic in a locked block, and what it does to the callers after it.
NextPanic ==
    \/ \E p \in Producers : PostLogPanics(p)
    \/ GetLogsPanics
    \/ GetStatsPanics
    \/ PersistPanics
    \/ \E p \in Producers : PostLogPoisoned(p)
    \/ PersistPoisoned

Next == NextIngest \/ NextQuery \/ NextStream \/ NextPersist

\* Every client at work.
Spec == Init /\ [][Next]_vars

\* The clients of POST /logs, GET /logs and GET /logs/stats at work, nobody
\* connected to GET /logs/stream.
SpecStore == Init /\ [][NextIngest \/ NextQuery]_vars

\* The clients of POST /logs and of GET /logs/stream at work.
SpecStream == Init /\ [][NextIngest \/ NextStream]_vars

\* The clients of POST /logs and the snapshot task at work.
SpecPersist == Init /\ [][NextIngest \/ NextPersist]_vars

\* The producer whose requests make up the traffic where the readers of the
\* Store are all at work.
Writer == 1

\* One client of POST /logs, the clients of GET /logs and GET /logs/stats and
\* the snapshot task at work.
SpecSnapshot == Init /\ [][NextProducer(Writer) \/ NextQuery \/ NextPersist]_vars

\* The server started with UnroundedCapacity; one client of POST /logs that
\* makes LongIngest requests and the clients of GET /logs/stream at work.
SpecUnrounded == InitUnrounded /\ [][NextLongProducer(Writer) \/ NextStream]_vars

\* SpecSnapshot where a thread may panic while it holds the mutex.
SpecPoison ==
    Init /\ [][NextProducer(Writer) \/ NextQuery \/ NextPersist \/ NextPanic]_vars

\* A post_log call that can take its next step takes it: the handler is a
\* task of the actix runtime and no step of it awaits anything but the mutex.
ProducerFairness ==
    \A p \in Producers :
        /\ WF_vars(PostLogPush(p))
        /\ WF_vars(PostLogDrain(p))
        /\ WF_vars(PostLogSend(p))
        /\ WF_vars(PostLogInc(p))

\* The receive loop of connection s is polled whenever rx.recv() can return.
ReceiverFairness(s) == WF_vars(StreamFrame(s)) /\ WF_vars(StreamLagged(s))

\* SpecStream with every receive loop scheduled fairly.
FairStream == SpecStream /\ \A s \in Subscribers : ReceiverFairness(s)

\* SpecStream with the producers scheduled fairly and nothing assumed of any
\* stream connection: each may stall for ever or be closed at any time.
FairIngest == SpecStream /\ ProducerFairness

\* The connection whose receive loop keeps running; the other is not
\* assumed to make any step.
Healthy == 1

\* SpecStream with the producers making all their requests, connection
\* Healthy scheduled fairly and the other connection left to itself.
FairIsolation ==
    /\ SpecStream
    /\ ProducerFairness
    /\ \A p \in Producers : WF_vars(PostLogBegin(p))
    /\ ReceiverFairness(Healthy)

\* ================================================================ claims
Min(a, b) == IF a < b THEN a ELSE b

\* No post_log call is between its push and the end of its locked block.
NoAppendInProgress == \A p \in Producers : lock # PostLogHolder(p)

\* No post_log call is in flight.
Quiescent == \A p \in Producers : pc[p] = "idle"

\* The last n elements of a sequence.
LastN(v, n) == SubSeq(v, Len(v) - n + 1, Len(v))

\* C1. Capacity invariant: whenever no Append is inside its locked block (in
\* particular whenever the mutex is free) the Store holds at most CAP entries.
C1_CapacityInvariant == NoAppendInProgress => Len(db) <= CAP

\* C1 witness: an Append that evicted has returned and the Store is full.
C1_Witness == lock = Free /\ Len(appended) > CAP /\ Len(db) = CAP

\* C2. FIFO retention: after N Appends the Store is exactly the last
\* min(N, CAP) appended entries, in arrival order; N counts every call that
\* has pushed.
C2_FifoRetention ==
    NoAppendInProgress =>
        /\ Len(appended) = Started - Cardinality({p \in Producers : pc[p] = "lock"})
        /\ Len(db) = Min(Len(appended), CAP)
        /\ db = LastN(appended, Min(Len(appended), CAP))

\* C2 witness: more than CAP Appends have completed, so the oldest is gone.
C2_Witness ==
    /\ NoAppendInProgress
    /\ Len(appended) = CAP + 1
    /\ db = Tail(appended)
    /\ appended[1] # db[1]

\* What post_log commits for a request of producer p.
Committed(p, i) == { FixTimestamp(b, ServerTime) : b \in Bodies(p, i) }

\* C3. Concurrency safety: when the producers' concurrent calls have all
\* completed, the Store has min(number of calls, CAP) entries, each of them
\* one of the ingested entries, none of them twice.
C3_ConcurrencySafety ==
    Quiescent =>
        /\ Len(db) = Min(Started, CAP)
        /\ \A i \in 1..Len(db) :
             \E p \in Producers : \E k \in 1..calls[p] : db[i] \in Committed(p, k)
        /\ \A i, j \in 1..Len(db) : i # j => db[i].message # db[j].message

\* C3 witness: both producers have completed calls whose locked blocks
\* alternated, the Store overflowed and holds entries of both.
C3_Witness ==
    /\ Quiescent
    /\ Started > CAP
    /\ \A p \in Producers : \E i \in 1..Len(db) : db[i].service = ServiceOf(p)
    /\ \E i \in 1..(Len(appended) - 2) :
         /\ appended[i].service = appended[i + 2].service
         /\ appended[i].service # appended[i + 1].service

\* The entries of store that a query for (service, level) asks for.
Matches(e, service, level) ==
    /\ service \in {None, e.service}
    /\ level \in {None, e.level}

\* C4. Filter correctness: the body of a GET /logs response is exactly the
\* entries of the Store, as it was when the handler held the mutex, that carry
\* the requested service (if any) and the requested level (if any), in Store
\* order.
C4_FilterCorrectness ==
    rpc = "responded" =>
        response.body = SelectSeq(response.snapshot,
                                  LAMBDA e : Matches(e, response.service, response.level))

\* C4 witness: both filters given; one entry passes both, another passes the
\* service filter and fails the level filter.
C4_Witness ==
    /\ rpc = "responded"
    /\ response.service # None
    /\ response.level # None
    /\ Len(response.body) = 1
    /\ \E i \in 1..Len(response.snapshot) :
         /\ response.snapshot[i].service = response.service
         /\ response.snapshot[i].level # response.level

\* Number of entries of store whose field f has value k.
CountOf(store, f, k) == Cardinality({ i \in 1..Len(store) : store[i][f] = k })

ValuesOf(store, f) == { store[i][f] : i \in 1..Len(store) }

SumOfValues(m) == SumOver(m, DOMAIN m)

\* C5. Stats consistency: both tables of a GET /logs/stats response sum to the
\* length of the Store as it was when the handler held the mutex, and each key
\* counts the entries with that level (service).
C5_StatsConsistency ==
    spc = "responded" =>
        /\ SumOfValues(stats.by_level) = Len(stats.snapshot)
        /\ SumOfValues(stats.by_service) = Len(stats.snapshot)
        /\ DOMAIN stats.by_level = ValuesOf(stats.snapshot, "level")
        /\ DOMAIN stats.by_service = ValuesOf(stats.snapshot, "service")
        /\ \A k \in DOMAIN stats.by_level :
             stats.by_level[k] = CountOf(stats.snapshot, "level", k)
        /\ \A k \in DOMAIN stats.by_service :
             stats.by_service[k] = CountOf(stats.snapshot, "service", k)

\* C5 witness: stats taken of a full Store while a post_log call was waiting
\* for the mutex; that call has since changed the Store.
C5_Witness ==
    /\ spc = "responded"
    /\ Len(stats.snapshot) = CAP
    /\ stats.snapshot # db
    /\ \E k \in DOMAIN stats.by_service : stats.by_service[k] = 2
    /\ Cardinality(DOMAIN stats.by_level) = 2

\* The payloads handed to send since connection s subscribed, in send order.
SentSince(s) == [i \in 1..(Len(sent) - subAt[s]) |-> sent[subAt[s] + i].payload]

Frames(payloads) == [i \in 1..Len(payloads) |-> SseFrame(payloads[i])]

IsPrefix(u, v) == Len(u) <= Len(v) /\ u = SubSeq(v, 1, Len(u))

\* The frames of connection s are the first frames of what was sent since it
\* subscribed: nothing skipped, repeated or out of order.
InPublishOrder(s) == IsPrefix(frames[s], Frames(SentSince(s)))

\* C6. Broadcast liveness: a connection that subscribed before K publishes
\* and stays open (it is neither overrun nor closed) eventually has received
\* those K messages: whenever it is open it will, unless it stops being open,
\* have as many frames as messages were sent since it subscribed; and what it
\* has received is at every moment the first messages sent since it
\* subscribed, each once, in publish order.
C6_BroadcastLiveness ==
    /\ [](\A s \in Subscribers : InPublishOrder(s))
    /\ \A s \in Subscribers :
         [](sub[s].status = "open" =>
              <>(sub[s].status # "open" \/ Len(frames[s]) = Len(SentSince(s))))

\* C6 witness: a connection has received two messages published after it
\* subscribed and is still open.
C6_Witness ==
    \E s \in Subscribers :
        /\ sub[s].status = "open"
        /\ Len(frames[s]) = 2
        /\ frames[s] = Frames(SentSince(s))

\* C10. No backlog on subscribe: every frame of a connection carries a message
\* sent after the connection subscribed, and its first frame carries the first
\* message sent after it subscribed.
C10_NoBacklog ==
    \A s \in Subscribers :
        /\ \A i \in 1..Len(frames[s]) : \A j \in 1..subAt[s] :
             frames[s][i] # SseFrame(sent[j].payload)
        /\ frames[s] # << >> => frames[s][1] = SseFrame(sent[subAt[s] + 1].payload)

\* C10 witness: a connection that subscribed when the ring already held a
\* message of an earlier connection has received its first frame.
C10_Witness ==
    \E s \in Subscribers :
        /\ subAt[s] > 0
        /\ sent[subAt[s]].accepted
        /\ Len(frames[s]) = 1

\* Connection s is open and more than a ring of messages behind: the oldest
\* messages sent to it have been overwritten.
Overrun(s) == sub[s].status = "open" /\ tail.pos - sub[s].next > BufferLen

\* C7. Broadcast isolation: with the producers making all their requests and
\* only connection Healthy assumed to keep receiving, all the requests
\* complete, the healthy connection, as long as it is open, ends up with every
\* message sent since it subscribed, in publish order, and no step of the
\* other connection changes the Store, the ring or the healthy connection.
C7_BroadcastIsolation ==
    /\ <>[](Started = MaxIngest /\ Quiescent)
    /\ <>[](sub[Healthy].status = "open" => frames[Healthy] = Frames(SentSince(Healthy)))
    /\ [](InPublishOrder(Healthy))
    /\ [][\A s \in Subscribers \ {Healthy} :
            sub'[s] # sub[s] =>
                /\ UNCHANGED <<db, appended, buffer, sent, total_logs>>
                /\ sub'[Healthy] = sub[Healthy]
                /\ frames'[Healthy] = frames[Healthy]]_vars

\* C7 witness: all requests are done, the healthy connection has received all
\* three messages, and the other connection has been overrun without having
\* received anything.
C7_Witness ==
    /\ Started = MaxIngest /\ Quiescent
    /\ sub[Healthy].status = "open"
    /\ Len(frames[Healthy]) = MaxIngest
    /\ frames[Healthy] = Frames(SentSince(Healthy))
    /\ \E s \in Subscribers \ {Healthy} : Overrun(s) /\ frames[s] = << >>

\* C8. Gap signal and recovery, as claimed: a connection that is overrun gets
\* a gap signal and goes on receiving, so no connection is ever ended by a
\* receive error. (The channel's sender lives as long as the server, so the
\* only receive error is Lagged.)
C8_GapRecovery == \A s \in Subscribers : sub[s].status # "ended"

IsBlank(t) == \A i \in 1..Len(t) : IsWhitespace(t[i])

\* Entry e is what body b must be committed as: with the server's time when
\* the body's timestamp is blank, and as it came otherwise.
CommittedAs(e, b) ==
    IF IsBlank(b.timestamp)
    THEN e = [b EXCEPT !.timestamp = ServerTime]
    ELSE e = b

\* Entry e is the committed form of a body of some request.
FromRequest(e) ==
    \E p \in Producers : \E i \in 1..calls[p] :
        /\ e.message = MessageOf(p, i)
        /\ \E b \in Bodies(p, i) : CommittedAs(e, b)

\* C11. Timestamp at rest: every entry in the Store, every entry ever
\* appended and every payload handed to the channel has a timestamp that is
\* not blank; it is the entry of a request whose blank timestamp was replaced
\* by the server's time, or whose non-blank timestamp, service, level and
\* message are unchanged; and the payload is the serialization of that entry.
C11_TimestampAtRest ==
    /\ \A i \in 1..Len(db) : ~IsBlank(db[i].timestamp) /\ FromRequest(db[i])
    /\ \A i \in 1..Len(appended) :
         ~IsBlank(appended[i].timestamp) /\ FromRequest(appended[i])
    /\ \A i \in 1..Len(sent) :
         \E e \in {appended[j] : j \in 1..Len(appended)} :
             /\ sent[i].payload = ToJson(e)
             /\ ~IsBlank(sent[i].payload[3])

\* C11 witness: the Store holds an entry stamped by the server and an entry
\* that kept its producer's timestamp, and both have been published.
C11_Witness ==
    /\ \E i \in 1..Len(db) : db[i].timestamp = ServerTime
    /\ \E i \in 1..Len(db) : db[i].timestamp = GivenTimestamp
    /\ \A i \in 1..Len(db) : \E j \in 1..Len(sent) : sent[j].payload = ToJson(db[i])

\* The entries appended so far whose frame is f.
AppendedAs(f) == { j \in 1..Len(appended) : f = SseFrame(ToJson(appended[j])) }

\* C12. Commit before publish: every payload handed to the channel and every
\* frame a connection has received is the serialization of an entry already
\* appended to the Store; the entry is in the Store now unless CAP or more
\* entries were appended after it.
C12_CommitBeforePublish ==
    /\ \A i \in 1..Len(sent) :
         \E j \in 1..Len(appended) : sent[i].payload = ToJson(appended[j])
    /\ \A s \in Subscribers : \A i \in 1..Len(frames[s]) :
         /\ AppendedAs(frames[s][i]) # {}
         /\ \A j \in AppendedAs(frames[s][i]) :
              Len(appended) - j < CAP =>
                  \E k \in 1..Len(db) : db[k] = appended[j]

\* C12 witness: a connection has received the frame of an entry that has since
\* been evicted and the frame of an entry that is still in the Store.
C12_Witness ==
    \E s \in Subscribers :
        /\ \E i \in 1..Len(frames[s]) : \A k \in 1..Len(db) :
             frames[s][i] # SseFrame(ToJson(db[k]))
        /\ \E i \in 1..Len(frames[s]) : \E k \in 1..Len(db) :
             frames[s][i] = SseFrame(ToJson(db[k]))

\* The post_log calls that have returned.
Completed == Started - Cardinality({ p \in Producers : pc[p] # "idle" })

\* C13. Ingest counter: total_logs is the number of post_log calls that have
\* returned, at every moment and so whenever no call is in flight; it never
\* exceeds the number of entries appended so far; and no step decreases it or
\* adds more than one to it.
C13_IngestCounter ==
    /\ [](total_logs = Completed)
    /\ [](total_logs <= Len(appended))
    /\ [][total_logs' = total_logs \/ total_logs' = total_logs + 1]_vars

\* C13 witness: all requests have returned and are counted, although entries
\* were evicted and no connection ever subscribed.
C13_Witness ==
    /\ Quiescent
    /\ total_logs = MaxIngest
    /\ Len(db) < total_logs
    /\ \A s \in Subscribers : sub[s].status = "none"
    /\ \A i \in 1..Len(sent) : ~sent[i].accepted

\* The messages of a sequence of entries, of the payloads handed to the
\* channel and of the frames of connection s, in their order.
MessagesIn(v) == [i \in 1..Len(v) |-> v[i].message]
MessagesSent == [i \in 1..Len(sent) |-> sent[i].payload[9]]
MessagesReceived(s) == [i \in 1..Len(frames[s]) |-> frames[s][i][2][9]]

\* In the sequence m of messages (each <<"msg", producer, call>>), the
\* messages of one producer stand in the order of its calls.
InCallOrder(m) ==
    \A i, j \in 1..Len(m) :
        i < j /\ m[i][2] = m[j][2] => m[i][3] < m[j][3]

\* Messages a and b stand in this order in the sequence m.
Before(m, a, b) == \E i, j \in 1..Len(m) : i < j /\ m[i] = a /\ m[j] = b

\* C17. Per-producer order: a producer makes its next request when the last
\* has returned, and the entries of one producer stand in the order of its
\* calls in the Store, in the sequence of all appends, in the sequence of
\* payloads handed to the channel and in the frames of every connection.
\* (Nothing is claimed of entries of different producers: the witness is a
\* state where the Store and a connection disagree on two of them.)
C17_PerProducerOrder ==
    /\ InCallOrder(MessagesIn(db))
    /\ InCallOrder(MessagesIn(appended))
    /\ InCallOrder(MessagesSent)
    /\ \A s \in Subscribers : InCallOrder(MessagesReceived(s))

\* C17 witness: a connection has received two messages of one producer, both
\* still in the Store, and has received two messages of different producers in
\* the order opposite to the order of their appends.
C17_Witness ==
    \E s \in Subscribers :
        /\ \E p \in Producers :
             /\ Before(MessagesReceived(s), MessageOf(p, 1), MessageOf(p, 2))
             /\ Before(MessagesIn(db), MessageOf(p, 1), MessageOf(p, 2))
        /\ \E p, q \in Producers : \E i \in 1..calls[p] : \E k \in 1..calls[q] :
             /\ p # q
             /\ Before(MessagesIn(appended), MessageOf(p, i), MessageOf(q, k))
             /\ Before(MessagesReceived(s), MessageOf(q, k), MessageOf(p, i))

\* Connection s has been dropped: closed by its client or ended by the server.
Dropped(s) == sub[s].status \in {"closed", "ended"}

\* C18. Unsubscribe and empty subscriber set: a post_log call that has pushed
\* can always send, whatever connections exist, were dropped or are being
\* dropped; every send, accepted by the channel or refused for want of a
\* receiver, belongs to a call that is then counted and returns, so with no
\* call in flight every request made is appended, sent and counted; the
\* channel counts exactly the open connections; and a dropped connection stays
\* dropped and gets no further frame.
C18_UnsubscribeSafe ==
    /\ [](\A p \in Producers : pc[p] = "send" => ENABLED PostLogSend(p))
    /\ [](Len(sent) = total_logs + Cardinality({ p \in Producers : pc[p] = "inc" }))
    /\ [](Quiescent => Len(appended) = Started /\ Len(sent) = Started
                       /\ total_logs = Started)
    /\ [](tail.rx_cnt = Cardinality({ s \in Subscribers : sub[s].status = "open" }))
    /\ [][\A s \in Subscribers :
            Dropped(s) => sub'[s] = sub[s] /\ frames'[s] = frames[s]]_vars

\* C18 witness: every connection was open and has been dropped, one of them
\* after receiving a frame; a send made after that was refused, and every
\* request has returned and is counted.
C18_Witness ==
    /\ \A s \in Subscribers : Dropped(s)
    /\ \E s \in Subscribers : frames[s] # << >>
    /\ ~sent[Len(sent)].accepted
    /\ Quiescent
    /\ total_logs = MaxIngest
    /\ Len(appended) = MaxIngest

\* The payloads the channel accepted, in send order: the publish sequence.
RECURSIVE AcceptedOf(_)
AcceptedOf(log) ==
    IF log = << >> THEN << >>
    ELSE LET rest == AcceptedOf(SubSeq(log, 1, Len(log) - 1))
             last == log[Len(log)]
         IN  IF last.accepted THEN Append(rest, last.payload) ELSE rest

Published == AcceptedOf(sent)

\* How many payloads the channel had accepted when connection s subscribed.
PublishedBefore(s) == Len(AcceptedOf(SubSeq(sent, 1, subAt[s])))

\* C20. Gap-free frames per connection: the frames of a connection are the
\* frames of a contiguous run of the publish sequence that starts with the
\* first message published after the connection subscribed, one frame
\* "data: <payload>\n\n" per message; a step that ends a connection is a
\* receive that found its next message overwritten or the client's close; and
\* once a connection has ended it gets no frame.
C20_GapFreeFrames ==
    /\ [](\A s \in Subscribers :
            /\ PublishedBefore(s) + Len(frames[s]) <= Len(Published)
            /\ frames[s] = Frames(SubSeq(Published, PublishedBefore(s) + 1,
                                         PublishedBefore(s) + Len(frames[s]))))
    /\ [][\A s \in Subscribers :
            sub[s].status = "open" /\ sub'[s].status = "ended" =>
                /\ RecvOutcome(sub[s].next, buffer) = "Lagged"
                /\ frames'[s] = frames[s]]_vars
    /\ [][\A s \in Subscribers :
            sub[s].status # "open" /\ sub[s].status # "none" =>
                frames'[s] = frames[s] /\ sub'[s].status = sub[s].status]_vars

\* C20 witness: a connection that subscribed after a message was published
\* has received the next two, and another was ended by a receive that found
\* its next message overwritten, with messages published that it never got.
C20_Witness ==
    /\ \E s \in Subscribers :
         /\ PublishedBefore(s) = 1
         /\ Len(frames[s]) = 2
    /\ \E s \in Subscribers :
         /\ sub[s].status = "ended"
         /\ Len(Published) > PublishedBefore(s) + Len(frames[s])

\* C14. Failure inside a critical section, as claimed: after a panic in a
\* locked block the Store can still be used, so no post_log call that waits
\* for the mutex ends without having pushed, and the snapshot task, due for
\* its next snapshot, is not ended by the mutex.
C14_LaterCallsSucceed ==
    [][/\ \A p \in Producers : pc[p] = "lock" => pc'[p] \in {"lock", "drain"}
       /\ persist.pc = "sleep" => persist'.pc \in {"sleep", "locked"}]_vars

\* C15. Collaborator failure isolation, as claimed: a failed snapshot is not
\* fatal to the snapshot task, which keeps running and tries again after the
\* next interval.
C15_WriterKeepsRunning == persist.pc # "dead"

\* The post_log calls whose locked block is complete.
AppendsDone ==
    Len(appended) - Cardinality({ p \in Producers : lock = PostLogHolder(p) })

\* The Store as it was when n locked blocks of post_log were complete.
StoreAfter(n) == LastN(SubSeq(appended, 1, n), Min(n, CAP))

\* C16. Atomic append-and-evict with snapshot reads: what get_logs, get_stats
\* and the snapshot task hold is the Store as it was between two locked blocks
\* of post_log (so at most CAP entries, consecutive in arrival order), the
\* response of get_logs is the filter of it, the tables of get_stats are the
\* counts of it, the snapshot file once written is the serialization of it;
\* and no later step of another handler changes what a reader holds.
C16_SnapshotReads ==
    /\ [](rpc = "responded" =>
            \E n \in 0..AppendsDone :
                /\ response.snapshot = StoreAfter(n)
                /\ Len(response.snapshot) <= CAP
                /\ response.body =
                     SelectSeq(StoreAfter(n),
                               LAMBDA e : Matches(e, response.service, response.level)))
    /\ [](spc = "responded" =>
            \E n \in 0..AppendsDone :
                /\ stats.snapshot = StoreAfter(n)
                /\ Len(stats.snapshot) <= CAP
                /\ DOMAIN stats.by_level = ValuesOf(StoreAfter(n), "level")
                /\ DOMAIN stats.by_service = ValuesOf(StoreAfter(n), "service")
                /\ \A k \in DOMAIN stats.by_level :
                     stats.by_level[k] = CountOf(StoreAfter(n), "level", k)
                /\ \A k \in DOMAIN stats.by_service :
                     stats.by_service[k] = CountOf(StoreAfter(n), "service", k))
    /\ [](persist.pc = "write" =>
            \E n \in 0..AppendsDone :
                persist.logs = StoreAfter(n) /\ Len(persist.logs) <= CAP)
    /\ [](persist.pc # "dead" /\ file # NoFile =>
            \E n \in 1..AppendsDone : file = ToJsonArray(StoreAfter(n)))
    /\ [][/\ rpc = "responded" /\ rpc' = "responded" => response' = response
          /\ spc = "responded" /\ spc' = "responded" => stats' = stats
          /\ persist.pc = "write" /\ persist'.pc = "write" => persist' = persist]_vars

\* C16 witness: the Store is full and has evicted; get_logs answered from the
\* Store as it was one append ago, the snapshot task holds the Store as it was
\* two appends ago, get_stats answered from the Store as it is, and the file
\* holds an earlier snapshot.
C16_Witness ==
    /\ lock = Free
    /\ Len(appended) > CAP
    /\ rpc = "responded" /\ response.snapshot = StoreAfter(Len(appended) - 1)
    /\ persist.pc = "write" /\ persist.logs = StoreAfter(Len(appended) - 2)
    /\ spc = "responded" /\ stats.snapshot = db
    /\ file # NoFile

\* The messages the channel still holds for connection s: the positions from
\* the receiver's next to the tail whose slot has not been written over.
Retained(s) ==
    IF sub[s].status = "open"
    THEN Cardinality({ n \in sub[s].next..(tail.pos - 1) : buffer[SlotIndex(n)].pos = n })
    ELSE 0

\* The messages published for connection s that it has not received.
Unreceived(s) == IF sub[s].status = "open" THEN tail.pos - sub[s].next ELSE 0

\* The least power of two that is at least n.
LeastPowerOfTwo(n) ==
    CHOOSE k \in 1..(2 * n) :
        /\ k >= n
        /\ \E e \in 0..n : 2^e = k
        /\ \A j \in n..(k - 1) : \A e \in 0..n : 2^e # j

\* C19, as claimed: the channel never holds more messages for a connection
\* than the capacity the server was started with.
C19_WithinConfiguredCapacity ==
    \A s \in Subscribers : Retained(s) <= UnroundedCapacity

\* C19. Bounded subscriber queue: the channel holds for a connection the
\* messages it has not received, up to the capacity the server was started
\* with rounded up to a power of two (128 for the 100 of main.rs:191), and no
\* more; of a connection further behind, the oldest messages are gone, the
\* newest are held, and its next receive finds its message overwritten.
C19_BoundedQueue ==
    \A s \in Subscribers :
        /\ Retained(s) <= LeastPowerOfTwo(UnroundedCapacity)
        /\ Retained(s) = Min(Unreceived(s), LeastPowerOfTwo(UnroundedCapacity))
        /\ Unreceived(s) > LeastPowerOfTwo(UnroundedCapacity) =>
             /\ RecvOutcome(sub[s].next, buffer) = "Lagged"
             /\ \A n \in (tail.pos - LeastPowerOfTwo(UnroundedCapacity))..(tail.pos - 1) :
                  buffer[SlotIndex(n)].pos = n

\* C19 witness: the channel holds more messages for a connection than the
\* configured capacity, and holds for another, which is further behind, as
\* many as it has slots, the oldest message published for it being gone.
C19_Witness ==
    /\ \E s \in Subscribers :
         /\ Retained(s) > UnroundedCapacity
         /\ Retained(s) = Unreceived(s)
    /\ \E s \in Subscribers :
         /\ Unreceived(s) > LeastPowerOfTwo(UnroundedCapacity)
         /\ Retained(s) = LeastPowerOfTwo(UnroundedCapacity)

====
